---- MODULE Spec2Model ----
(***************************************************************************)
(* State machine of learn-wgpu's State (src/src/state.rs): construction,   *)
(* resize, input, update and the per-frame render call, together with the  *)
(* presentation surface those calls drive.                                 *)
(***************************************************************************)
EXTENDS Integers, Sequences, FiniteSets, TLC

\* ------------------------------------------------------------------ bounds
\* Largest width/height the window reports or a resize event carries.
MaxDim == 2
\* Largest number of surface.configure calls followed (State::new makes the first).
MaxConfigures == 3
\* Largest number of Space release events followed.
MaxReleases == 3

Dim == 0..MaxDim

\* ------------------------------------------------------- static geometry
\* vertex.rs: the five pentagon vertices A..E (positions/tex_coords abstracted).
VERTICES == <<"A", "B", "C", "D", "E">>

\* vertex.rs: the index table of the triangle fan.
INDICES == <<0, 1, 4, 1, 2, 4, 2, 3, 4>>

\* ---------------------------------------------------------------- inputs
Keys == {"Space", "Enter"}

\* winit WindowEvent values handed to State::input. A keyboard event carries the
\* physical key, the element state and the auto-repeat flag (set on presses only).
KeyboardEvents ==
    {e \in [kind : {"KeyboardInput"}, key : Keys,
            state : {"Pressed", "Released"}, repeat : BOOLEAN] :
        e.repeat => e.state = "Pressed"}

OtherEvents ==
    [kind : {"CursorMoved", "MouseInput"}, key : {"None"},
     state : {"None"}, repeat : {FALSE}]

WindowEvents == KeyboardEvents \cup OtherEvents

NoEvent == [kind |-> "None", key |-> "None", state |-> "None", repeat |-> FALSE]

\* wgpu::SurfaceError, as returned by Surface::get_current_texture.
SurfaceErrors == {"Timeout", "Outdated", "Lost", "OutOfMemory", "Other"}

SurfaceStatuses == {"Good"} \cup SurfaceErrors

\* Surface formats the adapter may report, sRGB or not.
SrgbFormats == {"Bgra8UnormSrgb"}

SurfaceCaps == {<<"Bgra8UnormSrgb">>, <<"Bgra8Unorm">>, <<"Bgra8Unorm", "Bgra8UnormSrgb">>}

VARIABLES
    pc,               \* position of the program: "idle" between calls, a render position,
                      \* "aborted" (panic), "exited" (event loop left), "dropped", "closed"
    startup,          \* what the adapter and device requests of State::new answered
    released,         \* resources released by the teardown so far, in order
    size,             \* State.size
    config,           \* State.config (wgpu::SurfaceConfiguration)
    surfaceConfig,    \* the configuration most recently passed to surface.configure
    configureCalls,   \* number of surface.configure calls made so far
    surfaceStatus,    \* what the surface answers to get_current_texture
    use_color,        \* State.use_color
    num_indices,      \* State.num_indices
    camera,           \* State.camera, as the uniform it yields
    camera_buffer,    \* State.camera_buffer: identity and contents
    camera_bind_group,\* State.camera_bind_group: the buffer bound at binding 0
    frame,            \* GPU/surface calls of the render call in progress or just returned, in order
    call,             \* the most recent call into State (or surface event) and its return value
    spaceReleases,    \* number of Space release events delivered to input
    recovery          \* progress of a skipped frame: failed, reconfigured, recovered

vars == <<pc, startup, released, size, config, surfaceConfig, configureCalls, surfaceStatus, use_color,
          num_indices, camera, camera_buffer, camera_bind_group, frame, call,
          spaceReleases, recovery>>

\* ------------------------------------------------------------- helpers
Call(op, w, h, ev, ret) == [op |-> op, w |-> w, h |-> h, ev |-> ev, ret |-> ret]

RECURSIVE Gcd(_, _)
Gcd(a, b) == IF b = 0 THEN a ELSE Gcd(b, a % b)

\* Camera::new(&config) / Camera::get_uniform: the view-projection uniform depends on
\* the configuration through its aspect ratio width/height, kept as a reduced fraction.
CameraUniform(cfg) ==
    IF cfg.width = 0 \/ cfg.height = 0 THEN <<0, 0>>
    ELSE <<cfg.width \div Gcd(cfg.width, cfg.height),
           cfg.height \div Gcd(cfg.width, cfg.height)>>

RECURSIVE FirstSrgbFrom(_, _)
FirstSrgbFrom(formats, i) ==
    IF i > Len(formats) THEN "None"
    ELSE IF formats[i] \in SrgbFormats THEN formats[i]
    ELSE FirstSrgbFrom(formats, i + 1)

\* State::new: the first sRGB format of the capabilities, else the first format.
SelectFormat(formats) ==
    IF FirstSrgbFrom(formats, 1) # "None" THEN FirstSrgbFrom(formats, 1) ELSE formats[1]

\* Surface::configure validates the area: a zero width or height is a validation
\* error, which the default error handler turns into a panic.
ConfigureAccepted(cfg) == cfg.width > 0 /\ cfg.height > 0

\* Surface::configure recreates the swapchain: a lost or outdated surface is healthy
\* again, other conditions are not affected.
StatusAfterConfigure(status) ==
    IF status \in {"Lost", "Outdated"} THEN "Good" ELSE status

\* ---------------------------------------------------------------- Init
\* State::new(window): size is the window's inner size, whatever the window reports;
\* the configuration is built from it and passed to surface.configure.
InitConfig(w, h, caps) == [width |-> w, height |-> h, format |-> SelectFormat(caps)]

\* State::new computes num_indices from the index table.
InitNumIndices == Len(INDICES)

\* What instance.request_adapter and adapter.request_device may answer; the device is
\* requested only from an adapter.
StartupOutcomes ==
    {o \in [adapter : {"Some", "None"}, device : {"Ok", "Err", "NotRequested"}] :
        o.device = "NotRequested" <=> o.adapter = "None"}

StartupFallsBackWithoutAdapter(o) == o.device # "Err"

\* State::new: request_adapter(..).await.unwrap() and request_device(..).await.unwrap()
\* panic on None / Err; construction goes on only with an adapter and a device.
StartupProceeds(o) == o.adapter = "Some" /\ o.device = "Ok"

\* The configuration before State::new has built one.
NoConfig == [width |-> 0, height |-> 0, format |-> "None"]

\* State::new with an adapter and a device: everything from the surface
\* configuration to the returned Self.
InitConstructed(w, h, caps) ==
    /\ config = InitConfig(w, h, caps)
    /\ surfaceConfig = InitConfig(w, h, caps)
    /\ configureCalls = 1
    /\ pc = IF ConfigureAccepted(InitConfig(w, h, caps)) THEN "idle" ELSE "aborted"
    /\ camera = CameraUniform(InitConfig(w, h, caps))
    /\ camera_buffer = [id |-> 1, contents |-> CameraUniform(InitConfig(w, h, caps))]
    /\ call = Call("new", w, h, NoEvent,
                   IF ConfigureAccepted(InitConfig(w, h, caps)) THEN "Self" ELSE "panic")

\* State::new panicking on the adapter or device request: nothing is configured or
\* built, no State is returned.
InitPanicked(w, h) ==
    /\ config = NoConfig
    /\ surfaceConfig = NoConfig
    /\ configureCalls = 0
    /\ pc = "aborted"
    /\ camera = <<0, 0>>
    /\ camera_buffer = [id |-> 1, contents |-> <<0, 0>>]
    /\ call = Call("new", w, h, NoEvent, "panic")

Init ==
    \E w \in Dim, h \in Dim, caps \in SurfaceCaps, o \in StartupOutcomes :
        /\ size = [width |-> w, height |-> h]
        /\ startup = [adapter |-> o.adapter, device |-> o.device,
                      adapterRequests |-> 1, force_fallback_adapter |-> FALSE]
        /\ IF StartupProceeds(o) THEN InitConstructed(w, h, caps) ELSE InitPanicked(w, h)
        /\ surfaceStatus = "Good"
        /\ use_color = FALSE
        /\ num_indices = InitNumIndices
        /\ camera_bind_group = [buffer |-> 1]
        /\ frame = <<>>
        /\ spaceReleases = 0
        /\ recovery = "none"
        /\ released = <<>>

\* -------------------------------------------------------------- resize
ResizeGuardEitherDimension(w, h) == w > 0 \/ h > 0

\* State::resize: the guard on the new size.
ResizeGuard(w, h) == w > 0 /\ h > 0

RecoveryAfterResize(r) == IF r = "failed" THEN "reconfigured" ELSE r

ResizeSkipsSameSize(w, h) ==
    /\ pc = "idle"
    /\ call' = Call("resize", w, h, NoEvent, "unit")
    /\ IF ResizeGuard(w, h) /\ size # [width |-> w, height |-> h]
       THEN /\ configureCalls < MaxConfigures
            /\ size' = [width |-> w, height |-> h]
            /\ config' = [config EXCEPT !.width = w, !.height = h]
            /\ surfaceConfig' = config'
            /\ configureCalls' = configureCalls + 1
            /\ surfaceStatus' = StatusAfterConfigure(surfaceStatus)
            /\ recovery' = RecoveryAfterResize(recovery)
            /\ pc' = IF ConfigureAccepted(config') THEN "idle" ELSE "aborted"
       ELSE UNCHANGED <<pc, size, config, surfaceConfig, configureCalls, surfaceStatus,
                        recovery>>
    /\ frame' = <<>>
    /\ UNCHANGED <<startup, released>>
    /\ UNCHANGED <<use_color, num_indices, camera, camera_buffer,
                   camera_bind_group, spaceReleases>>

ResizeStoresSizeBeforeGuard(w, h) ==
    /\ pc = "idle"
    /\ call' = Call("resize", w, h, NoEvent, "unit")
    /\ size' = [width |-> w, height |-> h]
    /\ IF ResizeGuard(w, h)
       THEN /\ configureCalls < MaxConfigures
            /\ config' = [config EXCEPT !.width = w, !.height = h]
            /\ surfaceConfig' = config'
            /\ configureCalls' = configureCalls + 1
            /\ surfaceStatus' = StatusAfterConfigure(surfaceStatus)
            /\ recovery' = RecoveryAfterResize(recovery)
            /\ pc' = IF ConfigureAccepted(config') THEN "idle" ELSE "aborted"
       ELSE UNCHANGED <<pc, config, surfaceConfig, configureCalls, surfaceStatus,
                        recovery>>
    /\ frame' = <<>>
    /\ UNCHANGED <<startup, released>>
    /\ UNCHANGED <<use_color, num_indices, camera, camera_buffer,
                   camera_bind_group, spaceReleases>>

\* State::resize(new_size).
Resize(w, h) ==
    /\ pc = "idle"
    /\ call' = Call("resize", w, h, NoEvent, "unit")
    /\ IF ResizeGuard(w, h)
       THEN /\ configureCalls < MaxConfigures
            /\ size' = [width |-> w, height |-> h]
            /\ config' = [config EXCEPT !.width = w, !.height = h]
            /\ surfaceConfig' = config'
            /\ configureCalls' = configureCalls + 1
            /\ surfaceStatus' = StatusAfterConfigure(surfaceStatus)
            /\ recovery' = RecoveryAfterResize(recovery)
            /\ pc' = IF ConfigureAccepted(config') THEN "idle" ELSE "aborted"
       ELSE UNCHANGED <<pc, size, config, surfaceConfig, configureCalls, surfaceStatus,
                        recovery>>
    /\ frame' = <<>>
    /\ UNCHANGED <<startup, released>>
    /\ UNCHANGED <<use_color, num_indices, camera, camera_buffer,
                   camera_bind_group, spaceReleases>>

\* --------------------------------------------------------------- input
IsAnyKey(e) == e.kind = "KeyboardInput"

\* State::input: the match arm for a keyboard event whose physical key is Space.
IsSpaceKey(e) == e.kind = "KeyboardInput" /\ e.key = "Space"

ToggleSetsColor(e, uc) == IF e.state = "Released" THEN TRUE ELSE uc

ToggleOnAnyState(e, uc) == ~uc

\* State::input: use_color flips when the element state is Released.
Toggle(e, uc) == IF e.state = "Released" THEN ~uc ELSE uc

\* State::input(event) -> bool.
Input(e) ==
    /\ pc = "idle"
    /\ IF IsSpaceKey(e)
       THEN /\ use_color' = Toggle(e, use_color)
            /\ call' = Call("input", 0, 0, e, "true")
       ELSE /\ use_color' = use_color
            /\ call' = Call("input", 0, 0, e, "false")
    /\ IF IsSpaceKey(e) /\ e.state = "Released"
       THEN spaceReleases < MaxReleases /\ spaceReleases' = spaceReleases + 1
       ELSE spaceReleases' = spaceReleases
    /\ frame' = <<>>
    /\ UNCHANGED <<startup, released>>
    /\ UNCHANGED <<pc, size, config, surfaceConfig, configureCalls, surfaceStatus,
                   num_indices, camera, camera_buffer, camera_bind_group, recovery>>

\* State::update(): empty body.
Update ==
    /\ pc = "idle"
    /\ call' = Call("update", 0, 0, NoEvent, "unit")
    /\ frame' = <<>>
    /\ UNCHANGED <<startup, released>>
    /\ UNCHANGED <<pc, size, config, surfaceConfig, configureCalls, surfaceStatus,
                   use_color, num_indices, camera, camera_buffer, camera_bind_group,
                   spaceReleases, recovery>>

\* -------------------------------------------------------------- render
\* One recorded call of render(): its name, slot, resource, count and instances.
Ev(name, slot, res, count, instances) ==
    [ev |-> name, slot |-> slot, res |-> res, count |-> count, instances |-> instances]

AcquireFailsOnLossOnly(status) == status \in {"Lost", "Outdated"}

\* render(): `self.surface.get_current_texture()?` returns early on every error.
AcquireFails(status) == status # "Good"

SelectedPipelineSwapped(uc) ==
    IF uc = TRUE THEN "render_pipeline_triangle_interpol_buffer"
    ELSE "render_pipeline_triangle_interpol"

\* render(): the pipeline set for the current use_color.
SelectedPipeline(uc) ==
    IF uc = TRUE THEN "render_pipeline_triangle_interpol"
    ELSE "render_pipeline_triangle_interpol_buffer"

\* render(): both bind groups are set, at slots 0 and 1.
BindGroupEvents ==
    <<Ev("set_bind_group", 0, "diffuse_bind_group", 0, 0),
      Ev("set_bind_group", 1, "camera_bind_group", 0, 0)>>

VertexBufferForBufferedOnly(uc) ==
    IF uc THEN <<>> ELSE <<Ev("set_vertex_buffer", 0, "vertex_buffer", 0, 0)>>

\* render(): the vertex buffer is set at slot 0, whatever the pipeline.
VertexBufferEvents(uc) == <<Ev("set_vertex_buffer", 0, "vertex_buffer", 0, 0)>>

DrawThreeVerticesWhenGenerated(uc, n) ==
    IF uc THEN <<Ev("draw", 0, "", 3, 1)>> ELSE <<Ev("draw_indexed", 0, "", n, 1)>>

\* render(): draw_indexed(0..num_indices, 0, 0..1), whatever the pipeline.
DrawEvents(uc, n) == <<Ev("draw_indexed", 0, "", n, 1)>>

SubmitForgotten == <<Ev("finish", 0, "encoder", 0, 0)>>

\* render(): self.queue.submit(iter::once(encoder.finish())).
SubmitEvents == <<Ev("finish", 0, "encoder", 0, 0), Ev("submit", 0, "queue", 1, 0)>>

CallerSkipsEveryError(e) == {"idle"}

\* The redraw handler of the event loop, on an error returned by render: out of
\* memory is fatal and the loop exits; lost, outdated and timeout skip the frame and
\* the loop goes on; nothing is said of any other error.
CallerAfterError(e) ==
    IF e = "OutOfMemory" THEN {"exited"}
    ELSE IF e \in {"Lost", "Outdated", "Timeout"} THEN {"idle"}
    ELSE {"idle", "exited"}

RenderVars == <<startup, released, size, config, surfaceConfig, configureCalls, surfaceStatus, use_color,
                num_indices, camera, camera_buffer, camera_bind_group, spaceReleases>>

\* render(): acquire the next surface texture, or return the surface's error.
RenderAcquire ==
    /\ pc = "idle"
    /\ frame' = <<Ev("get_current_texture", 0, "surface", 0, 0)>>
    /\ IF AcquireFails(surfaceStatus)
       THEN /\ pc' \in CallerAfterError(surfaceStatus)
            /\ call' = Call("render", 0, 0, NoEvent, surfaceStatus)
            /\ recovery' = IF surfaceStatus \in {"Lost", "Outdated"}
                           THEN "failed" ELSE "none"
       ELSE /\ pc' = "acquired"
            /\ call' = Call("render", 0, 0, NoEvent, "pending")
            /\ recovery' = IF recovery = "recovered" THEN "none" ELSE recovery
    /\ UNCHANGED RenderVars

\* A step of render() at position `from` that records `events` and moves to `to`.
RenderStep(from, events, to) ==
    /\ pc = from
    /\ frame' = frame \o events
    /\ pc' = to
    /\ UNCHANGED <<call, recovery>>
    /\ UNCHANGED RenderVars

RenderCreateView ==
    RenderStep("acquired", <<Ev("create_view", 0, "output.texture", 0, 0)>>, "view")

RenderCreateEncoder ==
    RenderStep("view", <<Ev("create_command_encoder", 0, "device", 0, 0)>>, "encoder")

RenderBeginPass ==
    RenderStep("encoder", <<Ev("begin_render_pass", 0, "view", 0, 0)>>, "pass")

RenderSetPipeline ==
    RenderStep("pass", <<Ev("set_pipeline", 0, SelectedPipeline(use_color), 0, 0)>>,
               "pipeline")

RenderSetBindGroups == RenderStep("pipeline", BindGroupEvents, "bound")

RenderSetVertexBuffer == RenderStep("bound", VertexBufferEvents(use_color), "vertices")

RenderSetIndexBuffer ==
    RenderStep("vertices", <<Ev("set_index_buffer", 0, "index_buffer", 0, 0)>>, "indices")

RenderDraw == RenderStep("indices", DrawEvents(use_color, num_indices), "drawn")

\* The render pass is dropped at the end of its scope.
RenderEndPass ==
    RenderStep("drawn", <<Ev("end_render_pass", 0, "render_pass", 0, 0)>>, "ended")

RenderSubmit == RenderStep("ended", SubmitEvents, "submitted")

\* render(): output.present(); Ok(()).
RenderPresent ==
    /\ pc = "submitted"
    /\ frame' = Append(frame, Ev("present", 0, "output", 0, 0))
    /\ pc' = "idle"
    /\ call' = Call("render", 0, 0, NoEvent, "Ok")
    /\ recovery' = IF recovery = "reconfigured" THEN "recovered" ELSE "none"
    /\ UNCHANGED RenderVars

Render ==
    \/ RenderAcquire
    \/ RenderCreateView
    \/ RenderCreateEncoder
    \/ RenderBeginPass
    \/ RenderSetPipeline
    \/ RenderSetBindGroups
    \/ RenderSetVertexBuffer
    \/ RenderSetIndexBuffer
    \/ RenderDraw
    \/ RenderEndPass
    \/ RenderSubmit
    \/ RenderPresent

\* ------------------------------------------------------ the surface
\* Between two calls the surface may stop being presentable: the next
\* get_current_texture then reports that condition.
SurfaceFault(e) ==
    /\ pc = "idle"
    /\ surfaceStatus = "Good"
    /\ surfaceStatus' = e
    /\ call' = Call("surface_event", 0, 0, NoEvent, e)
    /\ frame' = <<>>
    /\ UNCHANGED <<startup, released>>
    /\ UNCHANGED <<pc, size, config, surfaceConfig, configureCalls, use_color,
                   num_indices, camera, camera_buffer, camera_bind_group,
                   spaceReleases, recovery>>

\* A timeout is transient: a later acquire may find the surface presentable again.
SurfaceRecover ==
    /\ pc = "idle"
    /\ surfaceStatus = "Timeout"
    /\ surfaceStatus' = "Good"
    /\ call' = Call("surface_event", 0, 0, NoEvent, "Good")
    /\ frame' = <<>>
    /\ UNCHANGED <<startup, released>>
    /\ UNCHANGED <<pc, size, config, surfaceConfig, configureCalls, use_color,
                   num_indices, camera, camera_buffer, camera_bind_group,
                   spaceReleases, recovery>>

\* ------------------------------------------------------------ teardown
\* The fields of State, in declaration order.
StateFields ==
    <<"surface", "device", "queue", "config", "size", "window",
      "render_pipeline_triangle_interpol_buffer", "render_pipeline_triangle_interpol",
      "use_color", "vertex_buffer", "index_buffer", "num_indices",
      "diffuse_bind_group", "camera", "camera_buffer", "camera_bind_group">>

\* window is a borrow (&'a Window): dropping the field releases nothing.
BorrowedFields == {"window"}

\* Fields that hold plain data, no resource.
PlainFields == {"config", "size", "use_color", "num_indices", "camera"}

DropOrderWindowOwnedFirst ==
    <<"window">> \o SelectSeq(StateFields, LAMBDA f : f \notin BorrowedFields \cup PlainFields)

\* Dropping State drops its fields in declaration order: the resources this releases.
DropOrder == SelectSeq(StateFields, LAMBDA f : f \notin BorrowedFields \cup PlainFields)

\* State goes out of scope, between two calls or after the event loop has exited.
DropState ==
    /\ pc \in {"idle", "exited"}
    /\ pc' = "dropped"
    /\ released' = released \o DropOrder
    /\ call' = Call("drop", 0, 0, NoEvent, "unit")
    /\ frame' = <<>>
    /\ UNCHANGED <<startup, size, config, surfaceConfig, configureCalls, surfaceStatus,
                   use_color, num_indices, camera, camera_buffer, camera_bind_group,
                   spaceReleases, recovery>>

\* The window is destroyed by its owner, which State<'a> borrows it from: the borrow
\* lasts as long as the State, so this comes after the State is dropped.
DestroyWindow ==
    /\ pc = "dropped"
    /\ pc' = "closed"
    /\ released' = IF \E i \in DOMAIN released : released[i] = "window"
                   THEN released ELSE Append(released, "window")
    /\ call' = Call("window_destroyed", 0, 0, NoEvent, "unit")
    /\ frame' = <<>>
    /\ UNCHANGED <<startup, size, config, surfaceConfig, configureCalls, surfaceStatus,
                   use_color, num_indices, camera, camera_buffer, camera_bind_group,
                   spaceReleases, recovery>>

Next ==
    \/ \E w \in Dim, h \in Dim : Resize(w, h)
    \/ \E e \in WindowEvents : Input(e)
    \/ Update
    \/ Render
    \/ \E e \in SurfaceErrors : SurfaceFault(e)
    \/ SurfaceRecover
    \/ DropState
    \/ DestroyWindow

Spec == Init /\ [][Next]_vars

\* ======================================================================
\* Properties
\* ======================================================================
\* Number of recorded calls named `name` in the frame.
CountEv(name) == Cardinality({i \in DOMAIN frame : frame[i].ev = name})

\* The names of the recorded calls of the frame, in order.
FrameNames == [i \in DOMAIN frame |-> frame[i].ev]

\* The pipelines set in the frame.
FramePipelines == {frame[i].res : i \in {j \in DOMAIN frame : frame[j].ev = "set_pipeline"}}

\* The draw calls of the frame, indexed or not.
FrameDraws == {i \in DOMAIN frame : frame[i].ev \in {"draw", "draw_indexed"}}

\* A render call is in progress.
Rendering ==
    pc \in {"acquired", "view", "encoder", "pass", "pipeline", "bound", "vertices",
            "indices", "drawn", "ended", "submitted"}

RenderReturned(ret) == pc = "idle" /\ call.op = "render" /\ call.ret = ret

ZeroSized(c) == c.op = "resize" /\ (c.w = 0 \/ c.h = 0)

ValidSized(c) == c.op = "resize" /\ c.w > 0 /\ c.h > 0

SpaceEvent(c, state) ==
    c.op = "input" /\ c.ev.kind = "KeyboardInput" /\ c.ev.key = "Space" /\ c.ev.state = state

\* C1: a resize whose width or height is zero changes neither the stored size nor the
\* configuration, and makes no surface.configure call.
C1_ResizeZeroIsNoOp ==
    [][ZeroSized(call') =>
          UNCHANGED <<size, config, surfaceConfig, configureCalls, surfaceStatus>>]_vars

\* C1 witness: resize(W,H) then resize(0,H): the size is still (W,H) and one
\* configure call was made after the one of State::new.
C1_Witness ==
    /\ ZeroSized(call) /\ call.w = 0 /\ call.h > 0
    /\ size.width > 0 /\ size.height = call.h
    /\ configureCalls = 2

\* C2: a resize with width > 0 and height > 0 stores exactly (w,h) in size and in
\* config, and makes exactly one surface.configure call with the updated
\* configuration, also when (w,h) is the size already stored.
C2_ResizeValidReconfigures ==
    [][ValidSized(call') =>
          /\ size' = [width |-> call'.w, height |-> call'.h]
          /\ config' = [config EXCEPT !.width = call'.w, !.height = call'.h]
          /\ surfaceConfig' = config'
          /\ configureCalls' = configureCalls + 1]_vars

\* C2 witness: two successive valid resizes after State::new, the stored size being
\* the one of the last call.
C2_Witness ==
    /\ ValidSized(call)
    /\ size = [width |-> call.w, height |-> call.h]
    /\ surfaceConfig.width = call.w /\ surfaceConfig.height = call.h
    /\ configureCalls = 3

\* C3: use_color starts false and is false exactly when the number of Space release
\* events delivered so far is even.
C3_ToggleParity ==
    pc # "aborted" => (use_color = FALSE <=> spaceReleases % 2 = 0)

\* C3 witness: two Space releases have been delivered and use_color is false again.
C3_Witness ==
    /\ SpaceEvent(call, "Released")
    /\ spaceReleases = 2
    /\ use_color = FALSE

\* C4: a Space press (first or auto-repeat) leaves use_color unchanged and is reported
\* handled; use_color changes only in an input call whose event is a Space release,
\* which is reported handled and flips it.
C4_OnlyReleaseToggles ==
    [][/\ SpaceEvent(call', "Pressed") => (use_color' = use_color /\ call'.ret = "true")
       /\ use_color' # use_color => SpaceEvent(call', "Released")
       /\ (SpaceEvent(call', "Released") /\ spaceReleases' # spaceReleases)
             => (use_color' = ~use_color /\ call'.ret = "true")]_vars

\* C4 witness: an auto-repeat press of Space, handled, after one release: use_color
\* is still true.
C4_Witness ==
    /\ SpaceEvent(call, "Pressed") /\ call.ev.repeat
    /\ call.ret = "true"
    /\ spaceReleases = 1
    /\ use_color = TRUE

\* C5: when the surface reports Lost, Outdated or Timeout, render returns that error
\* after one acquire attempt and records nothing else (no pass, no submit, no
\* present); render works on a pass only with a healthy surface, and a render call on
\* a healthy surface, also after a reconfiguring resize, returns Ok.
C5_RecoverableErrorSkipsFrame ==
    /\ (pc = "idle" /\ call.op = "render" /\ surfaceStatus \in {"Lost", "Outdated", "Timeout"})
          => (call.ret = surfaceStatus /\ FrameNames = <<"get_current_texture">>)
    /\ (call.op = "render" /\ call.ret \in {"Lost", "Outdated", "Timeout"})
          => (pc = "idle" /\ FrameNames = <<"get_current_texture">>)
    /\ Rendering => surfaceStatus = "Good"
    /\ CountEv("get_current_texture") <= 1
    /\ (pc = "idle" /\ call.op = "render" /\ surfaceStatus = "Good")
          => (call.ret = "Ok" /\ CountEv("submit") = 1 /\ CountEv("present") = 1)
    /\ (recovery = "recovered" /\ call.op = "render") => call.ret \in {"Ok", "pending"}

\* C5 witness: a render returned Lost or Outdated, a resize reconfigured the surface,
\* and the render call after it returned Ok.
C5_Witness ==
    /\ RenderReturned("Ok")
    /\ recovery = "recovered"

\* C6: a render call that returns Ok has made its calls in the order acquire, begin
\* pass, draw, end pass, finish, submit, present, with one submit and one present; in
\* every frame a present has a submit before it.
C6_SubmitBeforePresent ==
    /\ RenderReturned("Ok") =>
          SelectSeq(FrameNames,
                    LAMBDA n : n \in {"get_current_texture", "begin_render_pass", "draw",
                                      "draw_indexed", "end_render_pass", "finish",
                                      "submit", "present"})
             = <<"get_current_texture", "begin_render_pass", "draw_indexed",
                 "end_render_pass", "finish", "submit", "present">>
    /\ CountEv("submit") <= 1
    /\ CountEv("present") <= 1
    /\ \A i \in DOMAIN frame :
          frame[i].ev = "present" => \E j \in 1..(i - 1) : frame[j].ev = "submit"

\* C6 witness: a frame that was submitted and presented.
C6_Witness ==
    /\ RenderReturned("Ok")
    /\ CountEv("submit") = 1
    /\ frame[Len(frame)].ev = "present"

\* C7: num_indices is always the size of the index table, 9; a render call that
\* returns Ok has issued exactly one draw, indexed, with 9 indices and 1 instance,
\* whichever pipeline it set; no frame holds more than one draw.
C7_OneIndexedDrawOfAllIndices ==
    /\ pc # "aborted" => (num_indices = Len(INDICES) /\ num_indices = 9)
    /\ Cardinality(FrameDraws) <= 1
    /\ RenderReturned("Ok") =>
          /\ Cardinality(FrameDraws) = 1
          /\ \A i \in FrameDraws :
                /\ frame[i].ev = "draw_indexed"
                /\ frame[i].count = 9
                /\ frame[i].instances = 1

\* C7 witness: a frame drawn with the generated pipeline after a toggle and a resize.
C7_Witness ==
    /\ RenderReturned("Ok")
    /\ FramePipelines = {"render_pipeline_triangle_interpol"}
    /\ configureCalls >= 2
    /\ CountEv("draw_indexed") = 1

\* C8 (as stated): the vertex buffer is bound only in frames of the buffered pipeline;
\* a frame of the generated pipeline binds no vertex buffer and issues one non-indexed
\* draw of 3 vertices.
C8_VertexBufferOnlyForBuffered ==
    /\ CountEv("set_vertex_buffer") > 0
          => FramePipelines = {"render_pipeline_triangle_interpol_buffer"}
    /\ (RenderReturned("Ok") /\ FramePipelines = {"render_pipeline_triangle_interpol"})
          => /\ Cardinality(FrameDraws) = 1
             /\ \A i \in FrameDraws : frame[i].ev = "draw" /\ frame[i].count = 3

\* C8 (amended): every frame that got as far as its draw has bound the vertex buffer at
\* slot 0 exactly once, whichever pipeline it set; a frame of the generated pipeline
\* binds it too and issues one indexed draw over all num_indices indices, no
\* non-indexed draw.
C8_VertexBufferAlwaysBound ==
    /\ Cardinality(FrameDraws) > 0 =>
          /\ CountEv("set_vertex_buffer") = 1
          /\ \A i \in DOMAIN frame :
                frame[i].ev = "set_vertex_buffer" =>
                   (frame[i].slot = 0 /\ frame[i].res = "vertex_buffer")
    /\ (RenderReturned("Ok") /\ FramePipelines = {"render_pipeline_triangle_interpol"})
          => /\ CountEv("set_vertex_buffer") = 1
             /\ CountEv("draw") = 0
             /\ \A i \in FrameDraws : frame[i].count = num_indices

\* C8 witness: a finished frame of the generated pipeline with the vertex buffer bound.
C8_Witness ==
    /\ RenderReturned("Ok")
    /\ FramePipelines = {"render_pipeline_triangle_interpol"}
    /\ CountEv("set_vertex_buffer") = 1

\* C9: while render runs, the camera buffer bound in the camera bind group holds the
\* uniform of the currently stored configuration, every valid resize having written
\* the recomputed uniform into that same buffer.
C9_CameraFollowsResize ==
    /\ camera_bind_group.buffer = camera_buffer.id
    /\ Rendering => camera_buffer.contents = CameraUniform(config)

\* C10: whenever surface.configure has been called, from State::new on, the
\* configuration passed to it has width > 0 and height > 0.
C10_ConfiguredAreaPositive ==
    configureCalls > 0 => (surfaceConfig.width > 0 /\ surfaceConfig.height > 0)

NotSpaceInput(c) ==
    c.op = "input" /\ ~(c.ev.kind = "KeyboardInput" /\ c.ev.key = "Space")

\* C11: an input call whose event is not a keyboard event for Space (another key,
\* pressed or released, or a non-keyboard event) returns false and changes no field
\* of State and nothing of the surface.
C11_OtherInputNotHandled ==
    [][NotSpaceInput(call') =>
          /\ call'.ret = "false"
          /\ UNCHANGED <<pc, size, config, surfaceConfig, configureCalls, surfaceStatus,
                         use_color, num_indices, camera, camera_buffer,
                         camera_bind_group, spaceReleases>>]_vars

\* C11 witness: a release of Enter, not handled, with use_color still true after one
\* Space release.
C11_Witness ==
    /\ NotSpaceInput(call)
    /\ call.ev.key = "Enter" /\ call.ev.state = "Released"
    /\ call.ret = "false"
    /\ use_color = TRUE
    /\ spaceReleases = 1

\* C12: a frame sets exactly one pipeline, the generated one when use_color is true
\* and the buffered one when it is false; both bind groups are the ones built by
\* State::new and the camera buffer is the one bound then, in every frame.
C12_PipelineFollowsToggle ==
    /\ CountEv("set_pipeline") <= 1
    /\ RenderReturned("Ok") => CountEv("set_pipeline") = 1
    /\ CountEv("set_pipeline") = 1 =>
          FramePipelines = {IF use_color THEN "render_pipeline_triangle_interpol"
                            ELSE "render_pipeline_triangle_interpol_buffer"}
    /\ \A i \in DOMAIN frame :
          frame[i].ev = "set_bind_group" =>
             \/ frame[i].slot = 0 /\ frame[i].res = "diffuse_bind_group"
             \/ frame[i].slot = 1 /\ frame[i].res = "camera_bind_group"
    /\ pc # "aborted" => (camera_bind_group.buffer = camera_buffer.id /\ camera_buffer.id = 1)

\* C12 witness: after two toggles a frame is drawn with the buffered pipeline again.
C12_Witness ==
    /\ RenderReturned("Ok")
    /\ use_color = FALSE
    /\ spaceReleases = 2
    /\ FramePipelines = {"render_pipeline_triangle_interpol_buffer"}

StartupFailed == startup.adapter = "None" \/ startup.device = "Err"

\* C13: when no adapter is found or the device request fails, State::new panics: no
\* State is returned, nothing is configured, the adapter was requested once and
\* without fallback, and no resize, input, update, render or teardown of a State
\* ever follows.
C13_StartupFailureAborts ==
    /\ startup.adapterRequests = 1
    /\ startup.force_fallback_adapter = FALSE
    /\ StartupFailed =>
          /\ pc = "aborted"
          /\ call.op = "new" /\ call.ret = "panic"
          /\ configureCalls = 0
          /\ frame = <<>>
          /\ released = <<>>
    /\ call.op \in {"resize", "input", "update", "render"} =>
          (startup.adapter = "Some" /\ startup.device = "Ok")

\* C13 witness: an adapter was found, the device request failed, and State::new
\* panicked.
C13_Witness ==
    /\ startup.adapter = "Some" /\ startup.device = "Err"
    /\ pc = "aborted"
    /\ call.ret = "panic"

\* C14: a render that returns OutOfMemory ends the program: the event loop has
\* exited and no call into State follows but its teardown; a render that returns
\* Lost, Outdated or Timeout leaves the program between two calls, running.
C14_OutOfMemoryIsFatal ==
    /\ [](/\ (call.op = "render" /\ call.ret = "OutOfMemory") => pc = "exited"
          /\ (call.op = "render" /\ call.ret \in {"Lost", "Outdated", "Timeout"})
                => pc = "idle"
          /\ pc = "exited" =>
                (call.op = "render" /\ call.ret \in {"OutOfMemory", "Other"}
                 /\ FrameNames = <<"get_current_texture">>))
    /\ [][(pc = "exited") => (pc' = "dropped")]_vars
    /\ [][(pc \in {"dropped", "closed"}) =>
             call'.op \notin {"resize", "input", "update", "render"}]_vars

\* C14 witness: render returned OutOfMemory and the event loop has exited.
C14_Witness ==
    /\ pc = "exited"
    /\ call.op = "render" /\ call.ret = "OutOfMemory"

\* C15: in every teardown the surface is released before the window is destroyed,
\* and nothing is released while the State is in use.
C15_SurfaceReleasedBeforeWindow ==
    /\ \A i \in DOMAIN released :
          released[i] = "window" => \E j \in 1..(i - 1) : released[j] = "surface"
    /\ pc \notin {"dropped", "closed"} => released = <<>>
    /\ pc \in {"dropped", "closed"} => released[1] = "surface"

\* C15 witness: the State was dropped, surface first, and the window destroyed last.
C15_Witness ==
    /\ pc = "closed"
    /\ released[1] = "surface"
    /\ released[Len(released)] = "window"

SameSizeEverywhere ==
    /\ size.width = config.width /\ size.height = config.height
    /\ size.width = surfaceConfig.width /\ size.height = surfaceConfig.height

\* C16: once State::new has configured the surface, size equals (config.width,
\* config.height) and equals the size last passed to surface.configure; no input,
\* update or render call changes size, config or the configured size.
C16_SizeConfigSurfaceAgree ==
    /\ [](configureCalls > 0 => SameSizeEverywhere)
    /\ [][(call'.op \in {"input", "update", "render"}) =>
             UNCHANGED <<size, config, surfaceConfig, configureCalls>>]_vars

\* C16 witness: after two resizes and a rendered frame the three sizes agree.
C16_Witness ==
    /\ RenderReturned("Ok")
    /\ configureCalls = 3
    /\ size = [width |-> 2, height |-> 1]
    /\ SameSizeEverywhere
====
